---- MODULE Spec2Model ----
(***************************************************************************)
(* Model of backend/server.js: an Express server with two routes over one  *)
(* MongoDB collection, a startup connection routine and a SIGINT handler.  *)
(*                                                                         *)
(* The Node.js event loop runs one callback at a time, so each action is   *)
(* one synchronous stretch of code between two awaits.  The MongoDB driver *)
(* and server are the environment: every awaited call may succeed or fail. *)
(* Assumptions about the environment that the model makes explicit:        *)
(*   - the wall clock read by `new Date()` never steps backwards;          *)
(*   - a sort on createdAt returns documents with equal createdAt in any   *)
(*     order (MongoDB gives no order among equal sort keys);               *)
(*   - a write is applied to the collection when its insertOne call        *)
(*     returns successfully, and pending calls of a process that has       *)
(*     exited are dropped;                                                 *)
(*   - request bodies are JSON objects that express.json() has parsed.     *)
(***************************************************************************)
EXTENDS Integers, Sequences, FiniteSets, TLC

\* ------------------------------------------------------------------ bounds
MaxReq == 3
MaxClock == 1
MaxFairReq == 2

\* ------------------------------------------------------------ plain values
Undefined == "undefined"
\* A value that parseFloat receives is kept as the characters of its String()
\* conversion; this is the conversion of undefined.
UndefinedText == <<"u", "n", "d", "e", "f", "i", "n", "e", "d">>
\* Numbers are kept in hundredths; parseFloat reads no sign here, so every
\* parsed number is >= 0 and -1 is free to stand for NaN.
NaN == -1
NotConnectedMessage == "Database not connected."

\* ------------------------------------------------- request bodies (inputs)
TomatoesBody ==
  [productName |-> "Tomatoes", productDescription |-> "Fresh",
   productPrice |-> <<"3", ".", "5", "0">>, contactInfo |-> "farmer@example.com"]

\* A non-numeric price, and two fields missing from the JSON object.
BadPriceBody ==
  [productName |-> "Kale", productDescription |-> Undefined,
   productPrice |-> <<"a", "b", "c">>, contactInfo |-> Undefined]

\* No field at all: parseFloat receives undefined.
EmptyBody ==
  [productName |-> Undefined, productDescription |-> Undefined,
   productPrice |-> UndefinedText, contactInfo |-> Undefined]

Bodies == {TomatoesBody, BadPriceBody}

\* Messages of the errors the driver can raise from insertOne / find.
StoreErrors == {"MongoNetworkError"}

\* Connection strings the process can be started with.  The last one names
\* two hosts with ports, which the driver accepts and `new URL` rejects.
Uris == {"mongodb://db.example/",
         "mongodb://a.example:27017,b.example:27017/agro"}

\* ------------------------------------------------------------- parseFloat
DigitVal ==
  [c \in {"0", "1", "2", "3", "4", "5", "6", "7", "8", "9"} |->
     CASE c = "0" -> 0 [] c = "1" -> 1 [] c = "2" -> 2 [] c = "3" -> 3
       [] c = "4" -> 4 [] c = "5" -> 5 [] c = "6" -> 6 [] c = "7" -> 7
       [] c = "8" -> 8 [] c = "9" -> 9]

IsDigit(c) == c \in DOMAIN DigitVal

\* Number of leading decimal digits of the character sequence s.
RECURSIVE DigitRun(_)
DigitRun(s) ==
  IF s = <<>> \/ ~IsDigit(Head(s)) THEN 0 ELSE 1 + DigitRun(Tail(s))

\* Value of a sequence of digits read as a decimal integer.
RECURSIVE DigitsValue(_, _)
DigitsValue(s, acc) ==
  IF s = <<>> THEN acc ELSE DigitsValue(Tail(s), 10 * acc + DigitVal[Head(s)])

\* The first two fractional digits of ds, as hundredths.
Hundredths(ds) ==
  (IF Len(ds) >= 1 THEN 10 * DigitVal[ds[1]] ELSE 0)
  + (IF Len(ds) >= 2 THEN DigitVal[ds[2]] ELSE 0)

\* parseFloat: the longest prefix digits[.digits] (or .digits) as a number,
\* NaN when there is none.  Numbers are kept in hundredths (3.5 is 350).
ParseFloat(v) ==
  LET s == v
      n == DigitRun(s)
      rest == SubSeq(s, n + 1, Len(s))
      hasDot == rest # <<>> /\ Head(rest) = "."
      m == IF hasDot THEN DigitRun(Tail(rest)) ELSE 0
      ip == DigitsValue(SubSeq(s, 1, n), 0)
      fp == IF hasDot THEN Hundredths(SubSeq(Tail(rest), 1, m)) ELSE 0
  IN IF n = 0 /\ m = 0 THEN NaN ELSE 100 * ip + fp

\* --------------------------------------------------------------- variables
VARIABLES
  uri,                 \* process.env.MONGO_URI
  proc,                \* "running" | "terminated"
  exitCode,            \* -1 while running, else the code given to process.exit
  connPc,              \* connectToMongoDB: "connect" | "ping" | "ready" | "failed"
  dbName,              \* database name resolved from the uri
  productsCollection,  \* TRUE once the collection handle is assigned
  client,              \* MongoClient: "open" | "closing" | "closed"
  now,                 \* the wall clock read by new Date()
  store,               \* the products collection, in insertion order
  reqs,                \* the requests received so far, in arrival order
  lateOps              \* TRUE once a store call was issued after close() began

vars == <<uri, proc, exitCode, connPc, dbName, productsCollection, client,
          now, store, reqs, lateOps>>

\* ------------------------------------------------------ connectToMongoDB
\* new URL(uri): whether the WHATWG parser accepts the string, and the
\* pathname it yields.
UrlParse(u) ==
  CASE u = "mongodb://db.example/agro" ->
         [ok |-> TRUE, pathname |-> <<"/", "a", "g", "r", "o">>]
    [] u = "mongodb://db.example/" ->
         [ok |-> TRUE, pathname |-> <<"/">>]
    [] OTHER ->
         [ok |-> FALSE, pathname |-> <<>>]

\* pathname.substring(1) || 'test'
DbNameOf(pathname) ==
  LET sub == SubSeq(pathname, 2, Len(pathname))
  IN IF sub = <<>> THEN <<"t", "e", "s", "t">> ELSE sub

\* (mutant) the handle is assigned as soon as connect has returned.
AssignsCollectionEarly(step) == step \in {"connect", "ping"}

\* The awaited call after whose success the collection handle is assigned.
AssignsCollection(step) == step = "ping"

\* Exit codes.
StartupFailureExitCode == 1
\* (mutant) the SIGINT handler exits with the failure code.
SigintExitCodeWrong == StartupFailureExitCode
SigintExitCode == 0

Exit(code) ==
  /\ proc' = "terminated"
  /\ exitCode' = code

\* The rest of the try block once the awaited call `step` has returned:
\* new URL(uri) may throw, which the catch turns into process.exit(1).
AfterStartupStep(step, next) ==
  IF AssignsCollection(step) /\ ~productsCollection
  THEN IF UrlParse(uri).ok
       THEN /\ dbName' = DbNameOf(UrlParse(uri).pathname)
            /\ productsCollection' = TRUE
            /\ connPc' = next
            /\ UNCHANGED <<proc, exitCode>>
       ELSE /\ connPc' = "failed"
            /\ Exit(StartupFailureExitCode)
            /\ UNCHANGED <<dbName, productsCollection>>
  ELSE /\ connPc' = next
       /\ UNCHANGED <<dbName, productsCollection, proc, exitCode>>

\* await client.connect() returns.
ConnectOk ==
  /\ proc = "running"
  /\ connPc = "connect"
  /\ AfterStartupStep("connect", "ping")
  /\ UNCHANGED <<uri, client, now, store, reqs, lateOps>>

\* await client.db("admin").command({ping: 1}) returns.
PingOk ==
  /\ proc = "running"
  /\ connPc = "ping"
  /\ AfterStartupStep("ping", "ready")
  /\ UNCHANGED <<uri, client, now, store, reqs, lateOps>>

\* client.connect() or the ping rejects: the catch block exits the process.
StartupFail ==
  /\ proc = "running"
  /\ connPc \in {"connect", "ping"}
  /\ connPc' = "failed"
  /\ Exit(StartupFailureExitCode)
  /\ UNCHANGED <<uri, dbName, productsCollection, client, now, store, reqs, lateOps>>

\* ------------------------------------------------------------ the handlers
\* (mutant) the readiness check is missing.
NotConnectedNever(handle) == FALSE

\* (mutant) the readiness check also rejects once close() has begun.
NotConnectedOrClosing(handle) == ~handle \/ client # "open"

\* if (!productsCollection)
NotConnected(handle) == ~handle

\* (mutant) the timestamp runs against the clock.
ProductDataBackwards(body, t, id) ==
  [_id |-> id,
   productName |-> body.productName,
   productDescription |-> body.productDescription,
   productPrice |-> ParseFloat(body.productPrice),
   contactInfo |-> body.contactInfo,
   createdAt |-> MaxClock - t]

\* The record built by the POST handler; id is the _id the driver generates.
ProductData(body, t, id) ==
  [_id |-> id,
   productName |-> body.productName,
   productDescription |-> body.productDescription,
   productPrice |-> ParseFloat(body.productPrice),
   contactInfo |-> body.contactInfo,
   createdAt |-> t]

NoDoc == ProductData(EmptyBody, 0, 0)

\* (mutant) a failed insert is reported as a server error.
PostStatusServerError(ok) == IF ok THEN 201 ELSE 500

\* Status codes of the two handlers, by outcome of the awaited store call.
PostStatus(ok) == IF ok THEN 201 ELSE 400
GetStatus(ok) == IF ok THEN 200 ELSE 500
NotConnectedStatus == 500

\* (mutant) the filter keeps the documents with a numeric price.
FindFilterNumeric(doc) == doc.productPrice # NaN

\* find({}): the filter keeps every document.
FindFilter(doc) == TRUE

\* (mutant) sort({createdAt: 1}).
SortOrderAscending(a, b) == a.createdAt <= b.createdAt

\* sort({createdAt: -1}): a may come before b in the result.
SortOrderOk(a, b) == a.createdAt >= b.createdAt

Perms(n) ==
  {f \in [1..n -> 1..n] : \A i, j \in 1..n : i # j => f[i] # f[j]}

\* The documents of st that pass the filter, in insertion order.
RECURSIVE Filtered(_)
Filtered(st) ==
  IF st = <<>> THEN <<>>
  ELSE IF FindFilter(Head(st)) THEN <<Head(st)>> \o Filtered(Tail(st))
       ELSE Filtered(Tail(st))

\* Every result find({}).sort({createdAt: -1}).toArray() may return on st:
\* the filtered documents in any order the sort key allows.
FindSorted(st) ==
  LET fs == Filtered(st)
      n == Len(fs)
  IN {[i \in 1..n |-> fs[f[i]]] :
        f \in {g \in Perms(n) :
                 \A i \in 1..n : \A j \in 1..n :
                    i < j => SortOrderOk(fs[g[i]], fs[g[j]])}}

\* No request is awaiting the store: every earlier request has been answered.
Quiet == \A i \in 1..Len(reqs) : reqs[i].pc = "done"

NewRequest(kind) ==
  [kind |-> kind, pc |-> "await", ready |-> productsCollection,
   quiet |-> Quiet, doc |-> NoDoc,
   ops |-> 0, outcome |-> "none", responses |-> 0, status |-> 0,
   message |-> "", error |-> "", insertedId |-> 0, products |-> <<>>]

\* res.status(code).json(...)
Respond(r, code, message, error) ==
  [r EXCEPT !.pc = "done", !.responses = @ + 1, !.status = code,
            !.message = message, !.error = error]

\* POST /api/products, up to the await of insertOne.
Post(body) ==
  /\ proc = "running"
  /\ Len(reqs) < MaxReq
  /\ LET r == NewRequest("POST")
     IN IF NotConnected(productsCollection)
        THEN reqs' = Append(reqs, Respond(r, NotConnectedStatus, NotConnectedMessage, ""))
        ELSE reqs' = Append(reqs, [r EXCEPT !.doc = ProductData(body, now, Len(reqs) + 1),
                                            !.ops = @ + 1])
  /\ lateOps' = (lateOps \/ (client # "open" /\ ~NotConnected(productsCollection)))
  /\ UNCHANGED <<uri, proc, exitCode, connPc, dbName, productsCollection,
                 client, now, store>>

\* insertOne resolves: the document is in the collection and 201 is sent.
InsertOk(i) ==
  /\ proc = "running"
  /\ reqs[i].kind = "POST" /\ reqs[i].pc = "await"
  /\ store' = Append(store, reqs[i].doc)
  /\ reqs' = [reqs EXCEPT ![i] =
       [Respond(@, PostStatus(TRUE), "Product added successfully", "")
          EXCEPT !.outcome = "ok", !.insertedId = reqs[i].doc._id]]
  /\ UNCHANGED <<uri, proc, exitCode, connPc, dbName, productsCollection,
                 client, now, lateOps>>

\* insertOne rejects with message e: the catch block sends 400.
InsertFail(i, e) ==
  /\ proc = "running"
  /\ reqs[i].kind = "POST" /\ reqs[i].pc = "await"
  /\ reqs' = [reqs EXCEPT ![i] =
       [Respond(@, PostStatus(FALSE), "Error adding product", e)
          EXCEPT !.outcome = e]]
  /\ UNCHANGED <<uri, proc, exitCode, connPc, dbName, productsCollection,
                 client, now, store, lateOps>>

\* GET /api/products, up to the await of find().sort().toArray().
Get ==
  /\ proc = "running"
  /\ Len(reqs) < MaxReq
  /\ LET r == NewRequest("GET")
     IN IF NotConnected(productsCollection)
        THEN reqs' = Append(reqs, Respond(r, NotConnectedStatus, NotConnectedMessage, ""))
        ELSE reqs' = Append(reqs, [r EXCEPT !.ops = @ + 1])
  /\ lateOps' = (lateOps \/ (client # "open" /\ ~NotConnected(productsCollection)))
  /\ UNCHANGED <<uri, proc, exitCode, connPc, dbName, productsCollection,
                 client, now, store>>

\* toArray resolves with one of the results the sort allows: 200 is sent.
FindOk(i) ==
  /\ proc = "running"
  /\ reqs[i].kind = "GET" /\ reqs[i].pc = "await"
  /\ \E result \in FindSorted(store) :
       reqs' = [reqs EXCEPT ![i] =
         [Respond(@, GetStatus(TRUE), "", "")
            EXCEPT !.outcome = "ok", !.products = result]]
  /\ UNCHANGED <<uri, proc, exitCode, connPc, dbName, productsCollection,
                 client, now, store, lateOps>>

\* The find rejects with message e: the catch block sends 500.
FindFail(i, e) ==
  /\ proc = "running"
  /\ reqs[i].kind = "GET" /\ reqs[i].pc = "await"
  /\ reqs' = [reqs EXCEPT ![i] =
       [Respond(@, GetStatus(FALSE), "Error fetching products", e)
          EXCEPT !.outcome = e]]
  /\ UNCHANGED <<uri, proc, exitCode, connPc, dbName, productsCollection,
                 client, now, store, lateOps>>

\* ----------------------------------------------------------------- SIGINT
\* The handler up to the await: client.close() is called.
Sigint ==
  /\ proc = "running"
  /\ client' = "closing"
  /\ UNCHANGED <<uri, proc, exitCode, connPc, dbName, productsCollection,
                 now, store, reqs, lateOps>>

\* client.close() resolves and the handler goes on to process.exit(0).
CloseReturns ==
  /\ proc = "running"
  /\ client = "closing"
  /\ client' = "closed"
  /\ Exit(SigintExitCode)
  /\ UNCHANGED <<uri, connPc, dbName, productsCollection, now, store, reqs, lateOps>>

\* ------------------------------------------------------------ environment
\* The wall clock advances.
Tick ==
  /\ proc = "running"
  /\ now < MaxClock
  /\ now' = now + 1
  /\ UNCHANGED <<uri, proc, exitCode, connPc, dbName, productsCollection,
                 client, store, reqs, lateOps>>

\* ---------------------------------------------------------- specification
Init ==
  /\ uri \in Uris
  /\ proc = "running"
  /\ exitCode = -1
  /\ connPc = "connect"
  /\ dbName = <<>>
  /\ productsCollection = FALSE
  /\ client = "open"
  /\ now = 0
  /\ store = <<>>
  /\ reqs = <<>>
  /\ lateOps = FALSE

Next ==
  \/ ConnectOk
  \/ PingOk
  \/ StartupFail
  \/ \E body \in Bodies : Post(body)
  \/ \E i \in 1..Len(reqs) : InsertOk(i)
  \/ \E i \in 1..Len(reqs) : \E e \in StoreErrors : InsertFail(i, e)
  \/ Get
  \/ \E i \in 1..Len(reqs) : FindOk(i)
  \/ \E i \in 1..Len(reqs) : \E e \in StoreErrors : FindFail(i, e)
  \/ Sigint
  \/ CloseReturns
  \/ Tick

Spec == Init /\ [][Next]_vars

\* The same program started against a collection that an earlier run left
\* two listings in, both stamped in the same millisecond.
SeedDoc(id) ==
  [_id |-> id, productName |-> "Seed", productDescription |-> Undefined,
   productPrice |-> 100, contactInfo |-> Undefined, createdAt |-> -1]

InitWarm ==
  /\ uri \in Uris
  /\ proc = "running"
  /\ exitCode = -1
  /\ connPc = "connect"
  /\ dbName = <<>>
  /\ productsCollection = FALSE
  /\ client = "open"
  /\ now = 0
  /\ store = <<SeedDoc(-2), SeedDoc(-1)>>
  /\ reqs = <<>>
  /\ lateOps = FALSE

SpecWarm == InitWarm /\ [][Next]_vars

\* The shutdown under fairness: client.close() eventually returns.  The
\* process receives at most MaxFairReq requests here.
NextFair == Next /\ Len(reqs') <= MaxFairReq

FairSpec == Init /\ [][NextFair]_vars /\ WF_vars(CloseReturns)

\* ------------------------------------------------------------- vocabulary
Reqs == 1..Len(reqs)
IsPost(i) == reqs[i].kind = "POST"
IsGet(i) == reqs[i].kind = "GET"
Answered(i) == reqs[i].pc = "done"
Ids(seq) == {seq[k]._id : k \in 1..Len(seq)}
\* Position of the document with identifier id in seq (0 when absent).
PosOf(seq, id) ==
  IF id \in Ids(seq) THEN CHOOSE k \in 1..Len(seq) : seq[k]._id = id ELSE 0
\* Request i is handled in this step.
Arrives(i) == i = Len(reqs) + 1 /\ Len(reqs') = i
\* The awaited store call of request i returns in this step.
Returns(i) == i \in Reqs /\ reqs[i].pc = "await" /\ reqs'[i].pc = "done"

\* ---------------------------------------------------------------- claims

\* C1: every 200 response of GET /api/products is a sequence of stored
\* listings whose createdAt never increases from one element to the next.
C1_GetSortedNewestFirst ==
  \A i \in Reqs :
    (IsGet(i) /\ reqs[i].status = 200) =>
      LET ps == reqs[i].products
      IN /\ \A k \in 1..Len(ps) : \E l \in 1..Len(store) : store[l] = ps[k]
         /\ \A k \in 1..(Len(ps) - 1) : ps[k].createdAt >= ps[k + 1].createdAt

\* C1 witness: a 200 response that lists a newer listing before an older one.
C1_Witness ==
  \E i \in Reqs :
    /\ IsGet(i) /\ reqs[i].status = 200 /\ Len(reqs[i].products) >= 2
    /\ reqs[i].products[1].createdAt > reqs[i].products[2].createdAt

C3_NotConnectedResponse ==
  /\ [](\A i \in Reqs :
          ~reqs[i].ready =>
            /\ Answered(i) /\ reqs[i].responses = 1
            /\ reqs[i].status = 500 /\ reqs[i].message = NotConnectedMessage
            /\ reqs[i].ops = 0)
  /\ [][(Len(reqs') = Len(reqs) + 1 /\ ~productsCollection) =>
          (proc' = proc /\ exitCode' = exitCode /\ store' = store)]_vars

\* C3 witness: a POST and a GET were both answered before the handle was
\* assigned and the process is still running.
C3_Witness ==
  /\ proc = "running"
  /\ \E i \in Reqs : IsPost(i) /\ ~reqs[i].ready /\ reqs[i].status = 500
  /\ \E i \in Reqs : IsGet(i) /\ ~reqs[i].ready /\ reqs[i].status = 500

\* C4 as stated: after a fatal startup failure no request has received a
\* response.
C4_Original_NoResponseEver ==
  connPc = "failed" => (proc = "terminated" /\ exitCode = 1
                        /\ \A i \in Reqs : reqs[i].responses = 0)

\* C4 amended: after a fatal startup failure the process has exited with
\* code 1, nothing happens any more, and no request reached the store: every
\* request that process received was answered 500 'Database not connected.'.
C4_NoRequestReachesStore ==
  /\ [](connPc = "failed" =>
          /\ proc = "terminated" /\ exitCode = 1
          /\ ~productsCollection
          /\ store = <<>>
          /\ \A i \in Reqs :
               /\ reqs[i].ops = 0 /\ reqs[i].responses = 1
               /\ reqs[i].status = 500 /\ reqs[i].message = NotConnectedMessage)
  /\ [][connPc = "failed" => UNCHANGED vars]_vars

\* C4 witness: the startup failed after a request had been answered.
C4_Witness ==
  connPc = "failed" /\ \E i \in Reqs : reqs[i].status = 500

\* C5 as stated: once SIGINT was received, a terminated process has exit
\* code 0 and the close has completed.
C5_Original_SigintExitsZero ==
  (client # "open" /\ proc = "terminated") => (exitCode = 0 /\ client = "closed")

\* C5 amended: SIGINT starts the close with the process still running; the
\* process exits with code 0 exactly when the close has returned; while the
\* close is pending the only other exit is the startup failure, with code 1;
\* and (the close call returning) a process that received SIGINT terminates.
C5_SigintClosesThenExits ==
  /\ [](/\ (client = "closed") = (exitCode = 0)
        /\ exitCode = 0 => proc = "terminated"
        /\ (client = "closing" /\ proc = "terminated") =>
              (exitCode = 1 /\ connPc = "failed"))
  /\ [][(client = "open" /\ client' # "open") =>
          (client' = "closing" /\ proc' = "running")]_vars
  /\ [][client = "closing" => client' \in {"closing", "closed"}]_vars
  /\ (client # "open") ~> (proc = "terminated")

\* C5 witness: the process exited with code 0 after the close, with a request
\* still awaiting the store.
C5_Witness ==
  /\ proc = "terminated" /\ exitCode = 0 /\ client = "closed"
  /\ \E i \in Reqs : reqs[i].pc = "await"

C7_Original_CreatedAtFollowsInsertion ==
  \A k \in 1..Len(store) : \A l \in 1..Len(store) :
    k < l => store[k].createdAt <= store[l].createdAt

\* C7 amended: createdAt never decreases along the order in which the POST
\* handlers ran (stamped their record and called insertOne); so a listing
\* persisted before another's handler ran has the smaller or equal createdAt.
C7_CreatedAtFollowsStamping ==
  /\ \A i \in Reqs : \A j \in Reqs :
       (i < j /\ IsPost(i) /\ IsPost(j) /\ reqs[i].ready /\ reqs[j].ready) =>
         reqs[i].doc.createdAt <= reqs[j].doc.createdAt
  /\ \A k \in 1..Len(store) : \A j \in Reqs :
       (IsPost(j) /\ reqs[j].ready /\ store[k]._id < reqs[j].doc._id) =>
         store[k].createdAt <= reqs[j].doc.createdAt

\* C7 witness: two concurrent POSTs were persisted against their stamping
\* order, the later-stamped one first and with the larger createdAt.
C7_Witness ==
  /\ Len(store) >= 2
  /\ store[1]._id > store[2]._id
  /\ store[1].createdAt > store[2].createdAt

\* C8 as stated: of two POSTs made in sequence and a GET made after both, the
\* GET's 200 response lists the second POST's record before the first's.
C8_SecondPostListedFirst ==
  \A a \in Reqs : \A b \in Reqs : \A g \in Reqs :
    (/\ a < b /\ b < g
     /\ IsPost(a) /\ IsPost(b) /\ IsGet(g)
     /\ reqs[a].status = 201 /\ reqs[b].status = 201 /\ reqs[g].status = 200
     /\ reqs[b].quiet /\ reqs[g].quiet) =>
      /\ PosOf(reqs[g].products, reqs[a].insertedId) > 0
      /\ PosOf(reqs[g].products, reqs[b].insertedId) > 0
      /\ PosOf(reqs[g].products, reqs[b].insertedId)
           < PosOf(reqs[g].products, reqs[a].insertedId)

\* C9 as stated: the collection only grows by appending whole documents, a
\* GET or a failed or rejected POST leaves it unchanged, and two 200 responses
\* taken of the same collection contents are the same sequence.
C9_AppendOnlyAndRepeatableGet ==
  /\ [][/\ Len(store') >= Len(store)
        /\ SubSeq(store', 1, Len(store)) = store
        /\ (store' # store) =>
              \E i \in Reqs : IsPost(i) /\ Returns(i) /\ reqs'[i].status = 201
                              /\ store' = Append(store, reqs[i].doc)]_vars
  /\ [](\A g \in Reqs : \A h \in Reqs :
          (/\ IsGet(g) /\ IsGet(h)
           /\ reqs[g].status = 200 /\ reqs[h].status = 200
           /\ Len(reqs[g].products) = Len(reqs[h].products)) =>
            reqs[g].products = reqs[h].products)

\* C10: productsCollection is assigned only when the ping returns, never
\* cleared (not by SIGINT either); 'Database not connected.' is only answered
\* while the startup has not completed; and with the handle assigned a
\* request handled after close() began still issues its store call.
C10_HandleAssignedOnceNeverCleared ==
  /\ [][productsCollection => productsCollection']_vars
  /\ [][(~productsCollection /\ productsCollection') =>
          (connPc = "ping" /\ connPc' = "ready")]_vars
  /\ [](productsCollection = (connPc = "ready"))
  /\ [][\A i \in 1..MaxReq :
          Arrives(i) =>
            /\ (reqs'[i].message = NotConnectedMessage) = (connPc # "ready")
            /\ (connPc = "ready" /\ client # "open") =>
                 (reqs'[i].pc = "await" /\ reqs'[i].ops = 1 /\ lateOps')]_vars

\* C10 witness: a store call was issued after close() had begun, and it was
\* answered by the store.
C10_Witness ==
  /\ lateOps /\ productsCollection /\ client # "open"
  /\ \E i \in Reqs : reqs[i].ready /\ reqs[i].outcome = "ok"

====
